---- MODULE Spec2Model ----
(***************************************************************************)
(* A model of the OtoProxy pipeline (src/OtoProxy.py): one run of main():  *)
(* ProxyScraper() construction (load_sources, load_blacklist), the fan-out *)
(* of fetch_proxies in hyper_scrape, the batched check_proxy probes of     *)
(* verify_proxies, and save_proxies.                                       *)
(*                                                                         *)
(* The environment (files on disk, the disk cache, the answers of the      *)
(* source servers and of the test endpoints) is chosen nondeterministically*)
(* at the moment the program reads it.                                     *)
(***************************************************************************)
EXTENDS Integers, Sequences, FiniteSets, TLC

(***************************************************************************)
(* Bounds of the model and constants of the program.                       *)
(***************************************************************************)
\* number of distinct (ip, port) addresses the environment can advertise
NumAddrs == 2

\* self.batch_size (1000 in the source), scaled down so that a run has
\* several batches within NumAddrs candidates
batch_size == 1

\* self.latency_limit, in milliseconds
latency_limit == 1500

AddrPool ==
    << [ip |-> "1.2.3.4", port |-> 8080],
       [ip |-> "9.9.9.9", port |-> 3128],
       [ip |-> "1.2.3.4", port |-> 3128],
       [ip |-> "9.9.9.9", port |-> 8080],
       [ip |-> "5.6.7.8", port |-> 80] >>

Addrs == { AddrPool[n] : n \in 1..NumAddrs }

\* the protocol list main() hands to hyper_scrape, in that order
Protocols == <<"http", "socks4", "socks5">>

ProtocolSet == { Protocols[n] : n \in DOMAIN Protocols }

\* the test endpoints of check_proxy, in the order of the list
test_urls ==
    << "http://ip-api.com/json/", "http://httpbin.org/ip", "http://ipinfo.io/json" >>

(***************************************************************************)
(* class Proxy                                                             *)
(***************************************************************************)
Proxy(ip, port, protocol) ==
    [ip |-> ip, port |-> port, protocol |-> protocol, latency |-> 0]

\* Proxy.format
Format(p) == p.ip \o ":" \o ToString(p.port)

\* a plausible slip: equality that also compares the protocol
ProxyEqWithProtocol(a, b) ==
    a.ip = b.ip /\ a.port = b.port /\ a.protocol = b.protocol

\* Proxy.__eq__ (and __hash__, which hashes the same pair)
ProxyEq(a, b) == a.ip = b.ip /\ a.port = b.port

\* a plausible slip: an element of t replaces the element of s equal to it
SetUpdateOverwrite(s, t) == { q \in s : ~ \E p \in t : ProxyEq(q, p) } \cup t

\* set.update(t) on a Python set of Proxy, t itself one (pairwise unequal
\* elements): an element of t equal to one of s is dropped
SetUpdate(s, t) == s \cup { p \in t : ~ \E q \in s : ProxyEq(q, p) }

(***************************************************************************)
(* Text files: a file is absent or a sequence of lines; a line is a        *)
(* sequence of tokens (the pieces of text the program looks at).           *)
(***************************************************************************)
NoFile == [exists |-> FALSE, lines |-> <<>>]

File(lines) == [exists |-> TRUE, lines |-> lines]

Whitespace == {" ", "\t"}

RECURSIVE StripLeft(_)
StripLeft(line) ==
    IF line # <<>> /\ Head(line) \in Whitespace THEN StripLeft(Tail(line)) ELSE line

RECURSIVE StripRight(_)
StripRight(line) ==
    IF line # <<>> /\ line[Len(line)] \in Whitespace
    THEN StripRight(SubSeq(line, 1, Len(line) - 1))
    ELSE line

\* str.strip
Strip(line) == StripRight(StripLeft(line))

RECURSIVE Text(_)
\* the string a line of tokens spells
Text(line) == IF line = <<>> THEN "" ELSE Head(line) \o Text(Tail(line))

\* str.lower, on the tokens of the model
Lower(tok) ==
    CASE tok = "SOCKS4" -> "socks4"
      [] tok = "SOCKS5" -> "socks5"
      [] tok = "HTTP://" -> "http://"
      [] OTHER -> tok

\* word in line.lower()
Contains(line, word) == \E n \in DOMAIN line : Lower(line[n]) = word

\* line.startswith('http')
StartsWithHttp(line) == line # <<>> /\ Head(line) \in {"http://", "https://"}

(***************************************************************************)
(* load_sources                                                            *)
(***************************************************************************)
EmptySources == [p \in ProtocolSet |-> <<>>]

DefaultSources ==
    [p \in ProtocolSet |->
        << "https://raw.githubusercontent.com/TheSpeedX/PROXY-List/master/" \o p \o ".txt" >>]

ClassifyLine(line) ==
    IF Contains(line, "socks4") THEN "socks4"
    ELSE IF Contains(line, "socks5") THEN "socks5"
    ELSE "http"

RECURSIVE LoadLines(_, _)
LoadLines(lines, acc) ==
    IF lines = <<>> THEN acc
    ELSE LET line == Strip(Head(lines))
         IN  LoadLines(Tail(lines),
                 IF line = <<>> \/ ~ StartsWithHttp(line)
                 THEN acc
                 ELSE [acc EXCEPT ![ClassifyLine(line)] = Append(@, Text(line))])

\* a plausible slip: a missing sites.txt leaves the run without sources
load_sources_no_default(file) ==
    IF file.exists THEN LoadLines(file.lines, EmptySources) ELSE EmptySources

load_sources(file) ==
    IF file.exists THEN LoadLines(file.lines, EmptySources) ELSE DefaultSources

(***************************************************************************)
(* load_blacklist                                                          *)
(***************************************************************************)
load_blacklist(file) ==
    IF file.exists
    THEN { Text(Strip(file.lines[n])) : n \in DOMAIN file.lines } \ {""}
    ELSE {}

(***************************************************************************)
(* The files the run can find at startup.                                  *)
(***************************************************************************)
SitesFiles ==
    { NoFile,
      File(<< >>),
      File(<< <<"http://", "a.example/list.txt">>,
              << >>,
              <<"# ", "socks4", " mirrors">>,
              <<" ", "https://", "b.example/", "socks5", "-and-", "SOCKS4", " ">> >>) }

BlacklistFiles ==
    { NoFile,
      File(<< <<" ", "9.9.9.9:3128", " ">>, << >>, <<"1.2.3.4:8080">> >>) }

OutputNames ==
    << "all-proxies.txt", "http-proxies.txt", "socks4-proxies.txt",
       "socks5-proxies.txt", "blacklist.txt" >>

OutputNameSet == { OutputNames[n] : n \in DOMAIN OutputNames }

(***************************************************************************)
(* check_proxy                                                             *)
(***************************************************************************)
\* the answers of a test endpoint through the proxy: an exception (timeout,
\* refused connection, ...), or a status after `latency` milliseconds
ProbeResponses ==
    { [kind |-> "error",    status |-> 0,   latency |-> 0],
      [kind |-> "response", status |-> 404, latency |-> 400],
      [kind |-> "response", status |-> 200, latency |-> 400],
      [kind |-> "response", status |-> 201, latency |-> 900],
      [kind |-> "response", status |-> 202, latency |-> 1500] }

NoResponse == [kind |-> "none", status |-> 0, latency |-> 0]

\* a plausible slip: the ceiling itself is accepted
PassesAtCeiling(resp) ==
    /\ resp.kind = "response"
    /\ resp.status \in {200, 201, 202}
    /\ resp.latency <= latency_limit

\* the two nested conditions of check_proxy
Passes(resp) ==
    /\ resp.kind = "response"
    /\ resp.status \in {200, 201, 202}
    /\ resp.latency < latency_limit

\* a check_proxy task: asked = number of test endpoints requested so far,
\* last = the answer to the latest request, result = "running" or what the
\* task ended with ("true", "false", or "exception" when it raised)
NewProbe == [asked |-> 0, last |-> NoResponse, result |-> "running"]

\* the entry of a candidate whose task is over and whose result the loop
\* over zip(batch, results) has consumed: only the result is remembered
Finished(result) == [asked |-> 0, last |-> NoResponse, result |-> result]

\* the entry of a candidate whose check_proxy task is not created yet
NoProbe == [asked |-> 0, last |-> NoResponse, result |-> "waiting"]

\* a plausible slip: no `return True`, the loop goes on to the last endpoint
ProbeAfterNoReturn(task, resp) ==
    [asked  |-> task.asked + 1,
     last   |-> resp,
     result |-> IF task.asked + 1 < Len(test_urls) THEN "running"
                ELSE IF Passes(resp) THEN "true" ELSE "false"]

\* one iteration of the loop over test_urls, with the answer resp
ProbeAfter(task, resp) ==
    [asked  |-> task.asked + 1,
     last   |-> resp,
     result |-> IF Passes(resp) THEN "true"
                ELSE IF task.asked + 1 < Len(test_urls) THEN "running"
                ELSE "false"]

\* a plausible slip: proxy.latency assigned before the ceiling is tested
MeasuredBeforeCeiling(p, resp) ==
    IF resp.kind = "response" /\ resp.status \in {200, 201, 202}
    THEN [p EXCEPT !.latency = resp.latency]
    ELSE p

\* the candidate after one iteration of the loop over test_urls: the only
\* assignment to proxy.latency is the statement before `return True`
Measured(p, resp) ==
    IF Passes(resp) THEN [p EXCEPT !.latency = resp.latency] ELSE p

(***************************************************************************)
(* State.                                                                  *)
(***************************************************************************)
VARIABLES
    files,          \* the working directory: file name -> file
    sources,        \* self.sources: protocol -> sequence of URLs
    blacklist,      \* self.blacklist: the set loaded at startup
    seen_proxies,   \* self.seen_proxies
    pc,             \* where main() is
    fetch,          \* hyper_scrape: one entry per fetch_proxies task
    all_proxies,    \* hyper_scrape: all_proxies
    all_failed,     \* history: every fetch_proxies call so far went to the
                    \* network and got a non-200 status or an error
    proxies,        \* the list hyper_scrape returns; verify_proxies' input
    i,              \* verify_proxies: number of candidates in finished batches
    probe,          \* verify_proxies: one entry per check_proxy task
    verified,       \* verify_proxies: verified
    invalid         \* verify_proxies: invalid

\* the variables of OtoProxy.py
pipeline ==
    << files, sources, blacklist, seen_proxies, pc, fetch, all_proxies,
       all_failed, proxies, i, probe, verified, invalid >>

\* The repository holds more programs than OtoProxy.py; each has its own
\* variables and its own specification below, and stands still while
\* another one runs.
VARIABLES
    candidate,      \* the validators of OtoProxy.py: the (ip, port) they get
    admission       \* the validators of OtoProxy.py: what each one returned

validators == << candidate, admission >>

VARIABLES
    sc_pc,              \* scraper_checker.py: where main() is
    sc_htmls,           \* one entry per fetch_url task; its result is htmls
    sc_all_proxies,     \* all_proxies
    sc_check,           \* the proxy being checked and its check_proxy tasks
    sc_valid_proxies,   \* valid_proxies
    sc_geo,             \* the geo stage: all_valid, the position of its loop
                        \* and the check_geo call under way
    sc_id_proxies,      \* id_proxies
    sc_files            \* the files under result/ written so far

checker ==
    << sc_pc, sc_htmls, sc_all_proxies, sc_check, sc_valid_proxies, sc_geo,
       sc_id_proxies, sc_files >>

VARIABLES
    ps_pc,              \* src/scraper.py: where ProxyScraper.run is
    ps_fetch,           \* one entry per _fetch_proxies task
    ps_proxies,         \* run: proxies
    ps_check,           \* run, step 1: one entry per check_proxy task
    ps_live,            \* run: live_proxies
    ps_country,         \* run, step 2: one entry per check_country task
    ps_id_proxies,      \* run: id_proxies
    ps_results          \* self.results as _save_results writes it

scraper ==
    << ps_pc, ps_fetch, ps_proxies, ps_check, ps_live, ps_country,
       ps_id_proxies, ps_results >>

others == << validators, checker, scraper >>

vars == << pipeline, others >>

\* the state of a program that is not running
NoCandidate == [ip |-> << >>, port |-> 0]

NotAsked == [ip |-> "none", port |-> "none"]

ValidatorsIdle == candidate = NoCandidate /\ admission = NotAsked

NoCheck == [proxy |-> << >>, visited |-> {}, tasks |-> << >>]

NoGeo == [all_valid |-> << >>, lookups |-> << >>]

NoLists == [p \in ProtocolSet |-> << >>]

CheckerIdle ==
    /\ sc_pc = "idle"
    /\ sc_htmls = << >>
    /\ sc_all_proxies = {}
    /\ sc_check = NoCheck
    /\ sc_valid_proxies = NoLists
    /\ sc_geo = NoGeo
    /\ sc_id_proxies = NoLists
    /\ sc_files = {}

ScraperIdle ==
    /\ ps_pc = "idle"
    /\ ps_fetch = << >>
    /\ ps_proxies = << >>
    /\ ps_check = << >>
    /\ ps_live = << >>
    /\ ps_country = << >>
    /\ ps_id_proxies = << >>
    /\ ps_results = << >>

(***************************************************************************)
(* ProxyScraper.__init__ and __aenter__: the state main() starts from.     *)
(***************************************************************************)
Init ==
    \E sites \in SitesFiles, black \in BlacklistFiles :
        /\ files = [n \in OutputNameSet \cup {"sites.txt"} |->
                        IF n = "sites.txt" THEN sites
                        ELSE IF n = "blacklist.txt" THEN black
                        ELSE NoFile]
        /\ sources = load_sources(sites)
        /\ blacklist = load_blacklist(black)
        /\ seen_proxies = {}
        /\ pc = "hyper_scrape"
        /\ fetch = << >>
        /\ all_proxies = {}
        /\ all_failed = TRUE
        /\ proxies = << >>
        /\ i = 0
        /\ probe = << >>
        /\ verified = << >>
        /\ invalid = << >>
        /\ ValidatorsIdle
        /\ CheckerIdle
        /\ ScraperIdle

(***************************************************************************)
(* hyper_scrape and fetch_proxies                                          *)
(***************************************************************************)
RECURSIVE TasksFrom(_, _)
\* the (url, protocol) pairs of the two nested loops of hyper_scrape
TasksFrom(src, n) ==
    IF n > Len(Protocols) THEN << >>
    ELSE [k \in 1..Len(src[Protocols[n]]) |->
              [url |-> src[Protocols[n]][k], protocol |-> Protocols[n]]]
         \o TasksFrom(src, n + 1)

Tasks(src) == TasksFrom(src, 1)

\* what the disk cache can hold under the key of (url, protocol): nothing, or
\* a non-empty set that an earlier fetch_proxies(url, protocol) stored
CacheValues(protocol) ==
    { { Proxy(a.ip, a.port, protocol) : a \in S } : S \in (SUBSET Addrs) \ {{}} }

\* the answers of a source server: a transport error or timeout, or a status
\* with a body of lines
FetchResponses ==
    {[kind |-> "error", status |-> 0, body |-> << >>]}
    \cup { [kind |-> "response", status |-> s, body |-> b] :
             s \in {200, 404},
             b \in {<< >>} \cup { <<Format(a)>> : a \in Addrs } }

\* fetch_proxies past the cache: what it returns for an answer of the server.
\* With status 200 the loop header `for line in f` names an unbound `f`: the
\* NameError is caught by the handler of the outer try, which returns set().
FetchResult(resp) ==
    IF resp.kind = "error" THEN {}
    ELSE IF resp.status = 200 THEN {}
    ELSE {}

\* a task that has not received an answer of the server
Unanswered == [kind |-> "none", status |-> 0, body |-> << >>]

\* what a task keeps of an answer: the body is read (response.text()) under
\* `if response.status == 200` only
Heard(resp) ==
    IF resp.kind = "response" /\ resp.status = 200 THEN resp
    ELSE [kind |-> resp.kind, status |-> resp.status, body |-> << >>]

\* the number of fetch_proxies tasks that have returned
Completed(f) == Cardinality({ u \in DOMAIN f : f[u].st = "done" })

\* hyper_scrape: the tasks are created. An entry holds where the task is
\* (st), what it returned (result) and, as history, how many tasks had
\* returned before it did (rank) and the answer its GET received (answer).
CreateFetchTasks ==
    /\ pc = "hyper_scrape"
    /\ fetch' = [t \in DOMAIN Tasks(sources) |->
                    [st |-> "new", result |-> {}, rank |-> 0,
                     answer |-> Unanswered]]
    /\ pc' = "scrape"
    /\ UNCHANGED << files, sources, blacklist, seen_proxies, all_proxies,
                    all_failed, proxies, i, probe, verified, invalid, others >>

\* fetch_proxies up to its first suspension, cache hit: returns the cached set
FetchCacheHit(t) ==
    /\ pc = "scrape"
    /\ fetch[t].st = "new"
    /\ \A u \in 1..(t - 1) : fetch[u].st # "new"
    /\ \E cached \in CacheValues(Tasks(sources)[t].protocol) :
           fetch' = [fetch EXCEPT ![t] = [st |-> "done", result |-> cached,
                                          rank |-> Completed(fetch),
                                          answer |-> Unanswered]]
    /\ all_failed' = FALSE
    /\ UNCHANGED << files, sources, blacklist, seen_proxies, pc, all_proxies,
                    proxies, i, probe, verified, invalid, others >>

\* fetch_proxies up to its first suspension, cache miss (no entry, an empty
\* one, or cache.get raised): the GET is sent
FetchCacheMiss(t) ==
    /\ pc = "scrape"
    /\ fetch[t].st = "new"
    /\ \A u \in 1..(t - 1) : fetch[u].st # "new"
    /\ fetch' = [fetch EXCEPT ![t].st = "get"]
    /\ UNCHANGED << files, sources, blacklist, seen_proxies, pc, all_proxies,
                    all_failed, proxies, i, probe, verified, invalid, others >>

\* fetch_proxies resumes with the answer of the server
FetchResponse(t) ==
    /\ pc = "scrape"
    /\ fetch[t].st = "get"
    /\ \A u \in DOMAIN fetch : fetch[u].st # "new"
    /\ \E resp \in FetchResponses :
           /\ fetch' = [fetch EXCEPT ![t] = [st |-> "done",
                                             result |-> FetchResult(resp),
                                             rank |-> Completed(fetch),
                                             answer |-> Heard(resp)]]
           /\ all_failed' = (all_failed /\ ~ (resp.kind = "response" /\ resp.status = 200))
    /\ UNCHANGED << files, sources, blacklist, seen_proxies, pc, all_proxies,
                    proxies, i, probe, verified, invalid, others >>

RECURSIVE MergeFrom(_, _, _)
\* the loop `for proxy_set in results: all_proxies.update(proxy_set)`
MergeFrom(results, n, acc) ==
    IF n > Len(results) THEN acc
    ELSE MergeFrom(results, n + 1, SetUpdate(acc, results[n].result))

\* list(s): the elements of s, each once, in the set's iteration order
ListsOf(s) ==
    { l \in [1..Cardinality(s) -> s] :
        \A m, n \in 1..Cardinality(s) : m # n => l[m] # l[n] }

\* hyper_scrape after gather: the union of the results
Merge ==
    /\ pc = "scrape"
    /\ \A t \in DOMAIN fetch : fetch[t].st = "done"
    /\ all_proxies' = MergeFrom(fetch, 1, {})
    /\ pc' = "merged"
    /\ UNCHANGED << files, sources, blacklist, seen_proxies, fetch,
                    all_failed, proxies, i, probe, verified, invalid, others >>

\* hyper_scrape returns list(all_proxies), which main() hands to
\* verify_proxies
ScrapeReturn ==
    /\ pc = "merged"
    /\ \E l \in ListsOf(all_proxies) :
           /\ proxies' = l
           /\ probe' = [n \in DOMAIN l |-> NoProbe]
    /\ fetch' = << >>
    /\ all_proxies' = {}
    /\ pc' = "verify"
    /\ UNCHANGED << files, sources, blacklist, seen_proxies, all_failed, i,
                    verified, invalid, others >>

(***************************************************************************)
(* verify_proxies                                                          *)
(***************************************************************************)
Min(a, b) == IF a < b THEN a ELSE b

\* a plausible slip: the slice is one element longer than the step of the loop
BatchOneLonger == (i + 1)..Min(i + batch_size + 1, Len(proxies))

\* the indices (from 1) of proxies[i : i + batch_size]
Batch == (i + 1)..Min(i + batch_size, Len(proxies))

\* a plausible slip: `if result:`, which an exception object satisfies too
IsTruthy(result) == result \in {"true", "exception"}

\* isinstance(result, bool) and result
IsTrue(result) == result = "true"

RECURSIVE Classify(_, _, _, _)
\* the loop over zip(batch, results), from index n to index hi of proxies:
\* the new << verified, invalid >>
Classify(n, hi, ver, inv) ==
    IF n > hi THEN << ver, inv >>
    ELSE IF IsTrue(probe[n].result)
         THEN Classify(n + 1, hi, Append(ver, proxies[n]), inv)
         ELSE Classify(n + 1, hi, ver, Append(inv, Format(proxies[n])))

\* the batch's check_proxy tasks are created and gathered
StartBatch ==
    /\ pc = "verify"
    /\ i < Len(proxies)
    /\ probe' = [n \in DOMAIN proxies |-> IF n \in Batch THEN NewProbe ELSE probe[n]]
    /\ pc' = "gather"
    /\ UNCHANGED << files, sources, blacklist, seen_proxies, fetch,
                    all_proxies, all_failed, proxies, i, verified, invalid,
                    others >>

\* check_proxy of proxies[n] gets the answer to its current request
ProbeStep(n) ==
    /\ pc = "gather"
    /\ n \in Batch
    /\ probe[n].result = "running"
    /\ \E resp \in ProbeResponses :
           /\ probe' = [probe EXCEPT ![n] = ProbeAfter(probe[n], resp)]
           /\ proxies' = [proxies EXCEPT ![n] = Measured(proxies[n], resp)]
    /\ UNCHANGED << files, sources, blacklist, seen_proxies, pc, fetch,
                    all_proxies, all_failed, i, verified, invalid, others >>

\* check_proxy of proxies[n] ends with an exception raised outside its try
\* block, that is before its first request (the loop body is all inside the
\* try); gather(return_exceptions=True) returns it as the result
ProbeRaise(n) ==
    /\ pc = "gather"
    /\ n \in Batch
    /\ probe[n].result = "running"
    /\ probe[n].asked = 0
    /\ probe' = [probe EXCEPT ![n].result = "exception"]
    /\ UNCHANGED << files, sources, blacklist, seen_proxies, pc, fetch,
                    all_proxies, all_failed, proxies, i, verified, invalid,
                    others >>

\* gather returns; the loop over zip(batch, results); the sleep
CollectBatch ==
    /\ pc = "gather"
    /\ \A n \in Batch : probe[n].result # "running"
    /\ LET r == Classify(i + 1, Min(i + batch_size, Len(proxies)), verified, invalid)
       IN  /\ verified' = r[1]
           /\ invalid' = r[2]
    /\ probe' = [n \in DOMAIN probe |->
                    IF n \in Batch THEN Finished(probe[n].result) ELSE probe[n]]
    /\ i' = i + batch_size
    /\ pc' = "verify"
    /\ UNCHANGED << files, sources, blacklist, seen_proxies, fetch,
                    all_proxies, all_failed, proxies, others >>

\* the loop over the batches is over: verify_proxies returns
VerifyReturn ==
    /\ pc = "verify"
    /\ i >= Len(proxies)
    /\ pc' = "save"
    /\ UNCHANGED << files, sources, blacklist, seen_proxies, fetch,
                    all_proxies, all_failed, proxies, i, probe, verified,
                    invalid, others >>

(***************************************************************************)
(* save_proxies                                                            *)
(***************************************************************************)
\* the position of p in an ascending list that keeps p behind its equals
RECURSIVE InsertByLatency(_, _)
InsertByLatency(l, p) ==
    IF l = << >> THEN << p >>
    ELSE IF p.latency < Head(l).latency THEN << p >> \o l
    ELSE << Head(l) >> \o InsertByLatency(Tail(l), p)

RECURSIVE SortFrom(_, _, _)
SortFrom(l, n, acc) ==
    IF n > Len(l) THEN acc ELSE SortFrom(l, n + 1, InsertByLatency(acc, l[n]))

\* a plausible slip: the list is written in the order it was verified in
Unsorted(l) == l

\* sorted(proxies, key=lambda x: x.latency): ascending and stable
Sorted(l) == SortFrom(l, 1, << >>)

\* the strings of the proxies of l, those with the protocol in ps
RECURSIVE Strings(_, _)
Strings(l, ps) ==
    IF l = << >> THEN << >>
    ELSE (IF Head(l).protocol \in ps THEN << Format(Head(l)) >> ELSE << >>)
         \o Strings(Tail(l), ps)

\* a plausible slip: the aggregate list built from the three protocol lists
OutputDataByProtocol(ver, inv) ==
    LET s == Sorted(ver)
    IN  [n \in OutputNameSet |->
            CASE n = "all-proxies.txt"    ->
                     Strings(s, {"http"}) \o Strings(s, {"socks4"})
                         \o Strings(s, {"socks5"})
              [] n = "http-proxies.txt"   -> Strings(s, {"http"})
              [] n = "socks4-proxies.txt" -> Strings(s, {"socks4"})
              [] n = "socks5-proxies.txt" -> Strings(s, {"socks5"})
              [] n = "blacklist.txt"      -> inv]

\* the five lists save_proxies builds, by file name
OutputData(ver, inv) ==
    LET s == Sorted(ver)
    IN  [n \in OutputNameSet |->
            CASE n = "all-proxies.txt"    -> [k \in DOMAIN s |-> Format(s[k])]
              [] n = "http-proxies.txt"   -> Strings(s, {"http"})
              [] n = "socks4-proxies.txt" -> Strings(s, {"socks4"})
              [] n = "socks5-proxies.txt" -> Strings(s, {"socks5"})
              [] n = "blacklist.txt"      -> inv]

\* a plausible slip: a list without entries is not written
WriteIfAny(data) ==
    IF data = << >> THEN NoFile ELSE File([k \in DOMAIN data |-> << data[k] >>])

\* open(filename, 'w') and f.write('\n'.join(data) + '\n'): one line per
\* entry, and a single empty line when there is none
Write(data) ==
    IF data = << >> THEN File(<< << >> >>)
    ELSE File([k \in DOMAIN data |-> << data[k] >>])

\* the entries of a file: its non-blank lines, stripped
Entries(file) ==
    SelectSeq([k \in DOMAIN file.lines |-> Text(Strip(file.lines[k]))],
              LAMBDA e : e # "")

SaveProxies ==
    /\ pc = "save"
    /\ files' = [n \in DOMAIN files |->
                    IF n \in OutputNameSet
                    THEN Write(OutputData(verified, invalid)[n])
                    ELSE files[n]]
    /\ pc' = "done"
    /\ UNCHANGED << sources, blacklist, seen_proxies, fetch, all_proxies,
                    all_failed, proxies, i, probe, verified, invalid, others >>

(***************************************************************************)
(* The run.                                                                *)
(***************************************************************************)
Next ==
    \/ CreateFetchTasks
    \/ \E t \in DOMAIN fetch : FetchCacheHit(t)
    \/ \E t \in DOMAIN fetch : FetchCacheMiss(t)
    \/ \E t \in DOMAIN fetch : FetchResponse(t)
    \/ Merge
    \/ ScrapeReturn
    \/ StartBatch
    \/ \E n \in DOMAIN proxies : ProbeStep(n)
    \/ \E n \in DOMAIN proxies : ProbeRaise(n)
    \/ CollectBatch
    \/ VerifyReturn
    \/ SaveProxies

Spec == Init /\ [][Next]_vars

\* every step of a run is a network call with a timeout or a piece of
\* straight-line code: a run that can take a step eventually takes one
FairSpec == Spec /\ WF_vars(Next)

(***************************************************************************)
(* Text as the regular expressions and str.split see it: a string is a     *)
(* sequence of characters.                                                 *)
(***************************************************************************)
DigitChars == << "0", "1", "2", "3", "4", "5", "6", "7", "8", "9" >>

\* the characters [lo-hi] of a character class
DigitRange(lo, hi) == { DigitChars[k + 1] : k \in lo..hi }

DigitSet == DigitRange(0, 9)

DigitValue(c) == (CHOOSE k \in DOMAIN DigitChars : DigitChars[k] = c) - 1

AllDigits(s) == \A k \in DOMAIN s : s[k] \in DigitSet

\* the number a string of digits denotes
RECURSIVE Value(_)
Value(s) ==
    IF s = << >> THEN 0
    ELSE 10 * Value(SubSeq(s, 1, Len(s) - 1)) + DigitValue(s[Len(s)])

Range(l) == { l[n] : n \in DOMAIN l }

\* str.split(sep) with a one-character separator: the pieces between the
\* separators, empty pieces included
RECURSIVE SplitFrom(_, _, _, _)
SplitFrom(s, sep, n, piece) ==
    IF n > Len(s) THEN << piece >>
    ELSE IF s[n] = sep THEN << piece >> \o SplitFrom(s, sep, n + 1, << >>)
    ELSE SplitFrom(s, sep, n + 1, Append(piece, s[n]))

Split(s, sep) == SplitFrom(s, sep, 1, << >>)

\* sep.join(pieces)
RECURSIVE Join(_, _)
Join(pieces, sep) ==
    IF pieces = << >> THEN << >>
    ELSE IF Len(pieces) = 1 THEN pieces[1]
    ELSE pieces[1] \o << sep >> \o Join(Tail(pieces), sep)

(***************************************************************************)
(* OtoProxy.py: is_valid_ip and is_valid_port                              *)
(***************************************************************************)
\* one octet group of ip_pattern, matched against a whole piece between
\* dots: 25[0-5] | 2[0-4][0-9] | [01]?[0-9][0-9]?
OctetGroup(f) ==
    \/ /\ Len(f) = 3
       /\ f[1] = "2" /\ f[2] = "5" /\ f[3] \in DigitRange(0, 5)
    \/ /\ Len(f) = 3
       /\ f[1] = "2" /\ f[2] \in DigitRange(0, 4) /\ f[3] \in DigitSet
    \/ \E a, b \in {0, 1} :
           /\ Len(f) = a + 1 + b
           /\ a = 1 => f[1] \in DigitRange(0, 1)
           /\ f[a + 1] \in DigitSet
           /\ b = 1 => f[a + 2] \in DigitSet

\* where `$` matches in s: at its end, and before a newline that ends it
EndAnchors(s) ==
    {Len(s)} \cup (IF s # << >> /\ s[Len(s)] = "\n" THEN {Len(s) - 1} ELSE {})

\* ip_pattern.match(s): ^ (group \.){3} group $
ip_pattern_match(s) ==
    \E e \in EndAnchors(s) :
        LET f == Split(SubSeq(s, 1, e), ".")
        IN  Len(f) = 4 /\ \A k \in 1..4 : OctetGroup(f[k])

is_valid_ip(ip) == ip_pattern_match(ip)

is_valid_port(port) == 0 < port /\ port < 65536

\* The strings and numbers the validators are applied to.
MaxDigits == 3

\* every string of 1 to MaxDigits digits, and the empty string
DigitStrings ==
    {<< >>} \cup UNION { [1..n -> DigitSet] : n \in 1..MaxDigits }

EdgePieces == { <<"0">>, <<"2", "5", "5">>, <<"2", "5", "6">>, <<"0", "9">> }

IpStrings ==
    \* one piece sweeps every digit string, in the first or the last place
    { Join(<< f, <<"2">>, <<"3">>, <<"4">> >>, ".") : f \in DigitStrings }
    \cup { Join(<< <<"1">>, <<"2">>, <<"3">>, f >>, ".") : f \in DigitStrings }
    \* four pieces at the edges of the octet range
    \cup { Join(q, ".") : q \in [1..4 -> EdgePieces] }
    \* too few and too many pieces
    \cup { Join(q, ".") : q \in [1..3 -> {<<"1">>}] \cup [1..5 -> {<<"1">>}] }
    \* what a line can carry around a well-formed or an ill-formed address
    \cup { Join(q, ".") \o tail :
             q \in { << <<"1">>, <<"2">>, <<"3">>, <<"4">> >>,
                     << <<"3", "0", "0">>, <<"1">>, <<"1">>, <<"1">> >> },
             tail \in { <<"\n">>, <<" ">>, <<"\n", "\n">>, <<"a">>,
                        <<"0", "0", "0", "0">> } }

Ports == { -1, 0, 1, 8080, 65535, 65536, 99999 }

Bool(b) == IF b THEN "true" ELSE "false"

\* is_valid_ip is called on the candidate
IsValidIp ==
    /\ candidate # NoCandidate
    /\ admission.ip = "none"
    /\ admission' = [admission EXCEPT !.ip = Bool(is_valid_ip(candidate.ip))]
    /\ UNCHANGED << pipeline, candidate, checker, scraper >>

\* is_valid_port is called on the candidate
IsValidPort ==
    /\ candidate # NoCandidate
    /\ admission.port = "none"
    /\ admission' = [admission EXCEPT !.port = Bool(is_valid_port(candidate.port))]
    /\ UNCHANGED << pipeline, candidate, checker, scraper >>

\* OtoProxy.py not running
PipelineIdle ==
    /\ files = [n \in OutputNameSet \cup {"sites.txt"} |-> NoFile]
    /\ sources = EmptySources
    /\ blacklist = {}
    /\ seen_proxies = {}
    /\ pc = "idle"
    /\ fetch = << >>
    /\ all_proxies = {}
    /\ all_failed = TRUE
    /\ proxies = << >>
    /\ i = 0
    /\ probe = << >>
    /\ verified = << >>
    /\ invalid = << >>

ValidatorInit ==
    /\ PipelineIdle
    /\ CheckerIdle
    /\ ScraperIdle
    /\ candidate \in [ip : IpStrings, port : Ports]
    /\ admission = NotAsked

ValidatorNext == IsValidIp \/ IsValidPort

ValidatorSpec == ValidatorInit /\ [][ValidatorNext]_vars

(***************************************************************************)
(* scraper_checker.py                                                      *)
(***************************************************************************)
\* asyncio.Semaphore(50) of main(), scaled down
SemaphoreValue == 2

\* the largest number of lines of sources.txt
MaxUrls == 3

GEO_RATE_LIMIT == 30

\* the number of consecutive digits of text from position pos on
RECURSIVE DigitRun(_, _)
DigitRun(text, pos) ==
    IF pos > Len(text) \/ text[pos] \notin DigitSet THEN 0
    ELSE 1 + DigitRun(text, pos + 1)

\* \d{1,3} followed by the character sep, tried at pos: the position after
\* sep, or 0 when there is no match (the digits are followed by a character
\* that is no digit, so no shorter run can match either)
DigitsThen(text, pos, sep) ==
    LET r == DigitRun(text, pos)
    IN  IF r \in 1..3 /\ pos + r <= Len(text) /\ text[pos + r] = sep
        THEN pos + r + 1 ELSE 0

\* PROXY_REGEX tried at pos: the position of the last character of the match,
\* or 0 when there is none. (\d{1,3}\.\d{1,3}\.\d{1,3}\.\d{1,3}):(\d{1,5})
MatchEnd(text, pos) ==
    LET a == DigitsThen(text, pos, ".")
        b == IF a = 0 THEN 0 ELSE DigitsThen(text, a, ".")
        c == IF b = 0 THEN 0 ELSE DigitsThen(text, b, ".")
        d == IF c = 0 THEN 0 ELSE DigitsThen(text, c, ":")
        r == IF d = 0 THEN 0 ELSE DigitRun(text, d)
    IN  IF d = 0 \/ r = 0 THEN 0 ELSE d + Min(r, 5) - 1

\* PROXY_REGEX.findall(text), each match as f"{match[0]}:{match[1]}": the
\* matches from left to right, the search going on behind each match
RECURSIVE FindAllFrom(_, _)
FindAllFrom(text, pos) ==
    IF pos > Len(text) THEN {}
    ELSE LET e == MatchEnd(text, pos)
         IN  IF e > 0 THEN {SubSeq(text, pos, e)} \cup FindAllFrom(text, e + 1)
             ELSE FindAllFrom(text, pos + 1)

FindAll(text) == FindAllFrom(text, 1)

\* PROXY_REGEX.match(text): a match at the start of text
Matches(text) == MatchEnd(text, 1) > 0

\* A page as BeautifulSoup hands it to parse_proxies: the stripped strings of
\* its text, and the stripped texts of the cells of its table rows.
Page(strings, rows) == [kind |-> "text", strings |-> strings, rows |-> rows]

None == [kind |-> "None", strings |-> << >>, rows |-> << >>]

\* `if html:`
Truthy(html) == html.kind = "text" /\ html # Page(<< >>, << >>)

parse_proxies(html) ==
    UNION { FindAll(html.strings[k]) : k \in DOMAIN html.strings }
    \cup { row[1] \o <<":">> \o row[2] :
             row \in { html.rows[k] : k \in { j \in DOMAIN html.rows :
                           /\ Len(html.rows[j]) >= 2
                           /\ Matches(html.rows[j][1] \o <<":">> \o html.rows[j][2]) } } }

\* the pages the sources serve
Ip(a, b, c, d) == Join(<< a, b, c, d >>, ".")

ListPage ==
    Page(<< Ip(<<"1">>, <<"2">>, <<"3">>, <<"4">>) \o <<":", "8", "0", "8", "0">>,
            Ip(<<"5">>, <<"6">>, <<"7">>, <<"8">>) \o <<":", "9", "9", "9", "9", "9">> >>,
         << >>)

TablePage ==
    Page(<< <<"I", "P">>, Ip(<<"3", "0", "0">>, <<"1">>, <<"1">>, <<"1">>), <<"8", "0">> >>,
         << << <<"I", "P">> >>,
            << Ip(<<"3", "0", "0">>, <<"1">>, <<"1">>, <<"1">>), <<"8", "0">> >> >>)

\* the answers to the GET of fetch_url: an exception (timeout, refused
\* connection, ...) or a status with a body
FetchUrlAnswers ==
    { [kind |-> "error", status |-> 0, text |-> None],
      [kind |-> "response", status |-> 404, text |-> ListPage],
      [kind |-> "response", status |-> 200, text |-> ListPage],
      [kind |-> "response", status |-> 200, text |-> TablePage] }

\* what fetch_url returns for an answer
fetch_url(answer) ==
    IF answer.kind = "error" THEN None
    ELSE IF answer.status = 200 THEN answer.text
    ELSE None

\* a plausible slip: no semaphore around the request
NeverLocked(tasks) == FALSE

\* Semaphore.locked() of main()'s semaphore: every permit is held by a task
\* inside `async with semaphore`
Locked(tasks) ==
    Cardinality({ t \in DOMAIN tasks : tasks[t].st = "get" }) >= SemaphoreValue

\* a task blocked in Semaphore.acquire
Waiting(tasks) == { t \in DOMAIN tasks : tasks[t].st = "wait" }

NewTask == [st |-> "new", result |-> None]

\* main() reads sources.txt; without the file it logs and returns
ReadSources ==
    /\ sc_pc = "start"
    /\ \/ /\ \E k \in 0..MaxUrls : sc_htmls' = [t \in 1..k |-> NewTask]
          /\ sc_pc' = "fetch"
       \/ /\ sc_pc' = "returned"
          /\ UNCHANGED sc_htmls
    /\ UNCHANGED << pipeline, validators, scraper, sc_all_proxies, sc_check,
                    sc_valid_proxies, sc_geo, sc_id_proxies, sc_files >>

\* fetch_url up to its first suspension: the tasks start in the order gather
\* got them; a task takes a permit and sends its GET, or blocks in acquire
FetchUrlStart(t) ==
    /\ sc_pc = "fetch"
    /\ sc_htmls[t].st = "new"
    /\ \A u \in 1..(t - 1) : sc_htmls[u].st # "new"
    /\ sc_htmls' = [sc_htmls EXCEPT ![t].st =
                        IF Locked(sc_htmls) \/ Waiting(sc_htmls) # {}
                        THEN "wait" ELSE "get"]
    /\ UNCHANGED << pipeline, validators, scraper, sc_pc, sc_all_proxies,
                    sc_check, sc_valid_proxies, sc_geo, sc_id_proxies,
                    sc_files >>

\* the first task blocked in acquire gets the permit a release left
FetchUrlWake(t) ==
    /\ sc_pc = "fetch"
    /\ sc_htmls[t].st = "wait"
    /\ \A u \in 1..(t - 1) : sc_htmls[u].st # "wait"
    /\ ~ Locked(sc_htmls)
    /\ sc_htmls' = [sc_htmls EXCEPT ![t].st = "get"]
    /\ UNCHANGED << pipeline, validators, scraper, sc_pc, sc_all_proxies,
                    sc_check, sc_valid_proxies, sc_geo, sc_id_proxies,
                    sc_files >>

\* fetch_url resumes with the answer, returns and releases its permit
FetchUrlResponse(t) ==
    /\ sc_pc = "fetch"
    /\ sc_htmls[t].st = "get"
    /\ \A u \in DOMAIN sc_htmls : sc_htmls[u].st # "new"
    /\ \E answer \in FetchUrlAnswers :
           sc_htmls' = [sc_htmls EXCEPT ![t] = [st |-> "done", result |-> fetch_url(answer)]]
    /\ UNCHANGED << pipeline, validators, scraper, sc_pc, sc_all_proxies,
                    sc_check, sc_valid_proxies, sc_geo, sc_id_proxies,
                    sc_files >>

\* gather returns; the loop `for html in htmls` parses the pages
ParseHtmls ==
    /\ sc_pc = "fetch"
    /\ \A t \in DOMAIN sc_htmls : sc_htmls[t].st = "done"
    /\ sc_all_proxies' =
           UNION { parse_proxies(sc_htmls[t].result) :
                     t \in { u \in DOMAIN sc_htmls : Truthy(sc_htmls[u].result) } }
    /\ sc_htmls' = << >>
    /\ sc_pc' = "check"
    /\ UNCHANGED << pipeline, validators, scraper, sc_check, sc_valid_proxies,
                    sc_geo, sc_id_proxies, sc_files >>

\* the decimal digits of a natural number
RECURSIVE Decimal(_)
Decimal(n) ==
    IF n < 10 THEN << DigitChars[n + 1] >>
    ELSE Decimal(n \div 10) \o << DigitChars[(n % 10) + 1] >>

\* f"{latency:.2f}" of a latency of h hundredths of a second
Format2f(h) ==
    Decimal(h \div 100) \o <<".">> \o Decimal((h % 100) \div 10) \o Decimal(h % 10)

\* f"{proxy} | Latency: {latency:.2f}s"
ValidEntry(proxy, h) ==
    proxy \o << " ", "|", " ", "L", "a", "t", "e", "n", "c", "y", ":", " " >>
          \o Format2f(h) \o << "s" >>

\* what check_proxy returns: (None, None), or (protocol, latency) with the
\* latency in hundredths of a second
NoneNone == [protocol |-> "None", latency |-> 0]

\* The answers to the GET of check_proxy through the proxy: an exception, or
\* a status together with what the transport of the connection reports as
\* its extra info 'latency'. The asyncio transports define no such info, so
\* on them get_extra_info returns the default, 0.
CheckAnswers ==
    { [kind |-> "error", status |-> 0, latency |-> 0],
      [kind |-> "response", status |-> 404, latency |-> 0],
      [kind |-> "response", status |-> 200, latency |-> 0],
      [kind |-> "response", status |-> 200, latency |-> 25] }

check_proxy(protocol, answer) ==
    IF answer.kind = "error" THEN NoneNone
    ELSE IF answer.status = 200
         THEN [protocol |-> protocol, latency |-> answer.latency]
    ELSE NoneNone

\* the loop over results: the first result with a protocol and a latency
\* that are both truthy, or 0
FirstValid(tasks) ==
    LET ok == { k \in DOMAIN tasks :
                  tasks[k].result.protocol # "None" /\ tasks[k].result.latency # 0 }
    IN  IF ok = {} THEN 0 ELSE CHOOSE k \in ok : \A j \in ok : k <= j

NewCheck == [st |-> "new", result |-> NoneNone]

\* the loop `for proxy in all_proxies` takes the next proxy of the set, in the
\* set's iteration order, and creates its three check_proxy tasks; sc_check
\* remembers the proxies the loop has been through
CheckNext ==
    /\ sc_pc = "check"
    /\ \E proxy \in sc_all_proxies \ sc_check.visited :
           sc_check' = [proxy |-> proxy,
                        visited |-> sc_check.visited \cup {proxy},
                        tasks |-> [k \in DOMAIN Protocols |-> NewCheck]]
    /\ sc_pc' = "gather"
    /\ UNCHANGED << pipeline, validators, scraper, sc_htmls, sc_all_proxies,
                    sc_valid_proxies, sc_geo, sc_id_proxies, sc_files >>

\* check_proxy up to its first suspension: a permit and the GET, or acquire
CheckProxyStart(k) ==
    /\ sc_pc = "gather"
    /\ sc_check.tasks[k].st = "new"
    /\ \A j \in 1..(k - 1) : sc_check.tasks[j].st # "new"
    /\ sc_check' = [sc_check EXCEPT !.tasks[k].st =
                        IF Locked(sc_check.tasks) \/ Waiting(sc_check.tasks) # {}
                        THEN "wait" ELSE "get"]
    /\ UNCHANGED << pipeline, validators, scraper, sc_pc, sc_htmls,
                    sc_all_proxies, sc_valid_proxies, sc_geo, sc_id_proxies,
                    sc_files >>

\* the first task blocked in acquire gets the permit a release left
CheckProxyWake(k) ==
    /\ sc_pc = "gather"
    /\ sc_check.tasks[k].st = "wait"
    /\ \A j \in 1..(k - 1) : sc_check.tasks[j].st # "wait"
    /\ ~ Locked(sc_check.tasks)
    /\ sc_check' = [sc_check EXCEPT !.tasks[k].st = "get"]
    /\ UNCHANGED << pipeline, validators, scraper, sc_pc, sc_htmls,
                    sc_all_proxies, sc_valid_proxies, sc_geo, sc_id_proxies,
                    sc_files >>

\* check_proxy resumes with the answer, returns and releases its permit
CheckProxyResponse(k) ==
    /\ sc_pc = "gather"
    /\ sc_check.tasks[k].st = "get"
    /\ \A j \in DOMAIN sc_check.tasks : sc_check.tasks[j].st # "new"
    /\ \E answer \in CheckAnswers :
           sc_check' = [sc_check EXCEPT !.tasks[k] =
                            [st |-> "done",
                             result |-> check_proxy(Protocols[k], answer)]]
    /\ UNCHANGED << pipeline, validators, scraper, sc_pc, sc_htmls,
                    sc_all_proxies, sc_valid_proxies, sc_geo, sc_id_proxies,
                    sc_files >>

\* gather returns; the loop over results records the proxy under the first
\* protocol that has a truthy latency
CheckCollect ==
    /\ sc_pc = "gather"
    /\ \A k \in DOMAIN sc_check.tasks : sc_check.tasks[k].st = "done"
    /\ LET k == FirstValid(sc_check.tasks)
       IN  sc_valid_proxies' =
               IF k = 0 THEN sc_valid_proxies
               ELSE [sc_valid_proxies EXCEPT ![Protocols[k]] =
                        Append(@, ValidEntry(sc_check.proxy,
                                             sc_check.tasks[k].result.latency))]
    /\ sc_check' = [sc_check EXCEPT !.proxy = << >>, !.tasks = << >>]
    /\ sc_pc' = "check"
    /\ UNCHANGED << pipeline, validators, scraper, sc_htmls, sc_all_proxies,
                    sc_geo, sc_id_proxies, sc_files >>

\* the concatenation of the lists of a dict in the order of its keys
AllOf(lists) == lists["http"] \o lists["socks4"] \o lists["socks5"]

ValidFiles ==
    { "result/http_validproxies.txt", "result/socks4_validproxies.txt",
      "result/socks5_validproxies.txt", "result/all_validproxies.txt" }

IdFiles ==
    { "result/ID/ID-http_validproxies.txt", "result/ID/ID-socks4_validproxies.txt",
      "result/ID/ID-socks5_validproxies.txt", "result/ID/ID-all_validproxies.txt" }

NoAnswer == [kind |-> "none", status |-> 0, body |-> "none"]

NewLookup ==
    [st |-> "todo", ip |-> << >>, slept |-> 0, answer |-> NoAnswer,
     result |-> "none"]

\* the loop over all_proxies is over: the lists of valid proxies are saved
\* and the geo stage gets all_valid
SaveValid ==
    /\ sc_pc = "check"
    /\ sc_all_proxies \ sc_check.visited = {}
    /\ sc_files' = sc_files \cup ValidFiles
    /\ sc_geo' = [all_valid |-> AllOf(sc_valid_proxies),
                  lookups |-> [n \in DOMAIN AllOf(sc_valid_proxies) |-> NewLookup]]
    /\ sc_pc' = "geo"
    /\ UNCHANGED << pipeline, validators, scraper, sc_htmls, sc_all_proxies,
                    sc_check, sc_valid_proxies, sc_id_proxies >>

\* asyncio.Semaphore(1) of the geo stage
GeoSemaphoreValue == 1

\* 60 / GEO_RATE_LIMIT, in seconds
GeoPause == 60 \div GEO_RATE_LIMIT

\* the answers to the GET of a geo lookup: an exception (timeout, refused
\* connection, ...), or a status with a body that is a JSON object with the
\* given countryCode or no JSON at all
GeoAnswers ==
    { [kind |-> "error", status |-> 0, body |-> "none"],
      [kind |-> "response", status |-> 429, body |-> "ID"],
      [kind |-> "response", status |-> 200, body |-> "malformed"],
      [kind |-> "response", status |-> 200, body |-> "US"],
      [kind |-> "response", status |-> 200, body |-> "ID"] }

\* what check_geo returns for an answer: response.json() raises on a body
\* that is no JSON, and the handler returns False
check_geo(answer) ==
    IF answer.kind = "error" THEN FALSE
    ELSE IF answer.status = 200
         THEN IF answer.body = "malformed" THEN FALSE ELSE answer.body = "ID"
    ELSE FALSE

\* a plausible slip: the lookups are started together and gathered
AllInTurn(lookups, n) == TRUE

\* the loop `for proxy in all_valid` is at its n-th iteration: the iterations
\* before it are over
InTurn(lookups, n) == \A m \in 1..(n - 1) : lookups[m].st = "done"

\* the check_geo calls inside `async with semaphore`
GeoInFlight(lookups) == { n \in DOMAIN lookups : lookups[n].st = "request" }

\* the protocol under which valid_proxies lists the entry
ProtocolOf(lists, entry) ==
    Protocols[CHOOSE k \in DOMAIN Protocols :
                  /\ entry \in { lists[Protocols[k]][j] : j \in DOMAIN lists[Protocols[k]] }
                  /\ \A h \in 1..(k - 1) :
                         entry \notin { lists[Protocols[h]][j] : j \in DOMAIN lists[Protocols[h]] }]

\* an iteration of the geo loop starts: ip is cut out of the entry and
\* asyncio.sleep(60 / GEO_RATE_LIMIT) is awaited
GeoSleep(n) ==
    /\ sc_pc = "geo"
    /\ sc_geo.lookups[n].st = "todo"
    /\ InTurn(sc_geo.lookups, n)
    /\ sc_geo' = [sc_geo EXCEPT !.lookups[n].st = "sleep",
                                !.lookups[n].ip = Strip(Split(sc_geo.all_valid[n], "|")[1])]
    /\ UNCHANGED << pipeline, validators, scraper, sc_pc, sc_htmls,
                    sc_all_proxies, sc_check, sc_valid_proxies, sc_id_proxies,
                    sc_files >>

\* the sleep is over; check_geo takes the permit of geo_semaphore and sends
\* its GET
GeoRequest(n) ==
    /\ sc_pc = "geo"
    /\ sc_geo.lookups[n].st = "sleep"
    /\ Cardinality(GeoInFlight(sc_geo.lookups)) < GeoSemaphoreValue
    /\ sc_geo' = [sc_geo EXCEPT !.lookups[n].st = "request",
                                !.lookups[n].slept = GeoPause]
    /\ UNCHANGED << pipeline, validators, scraper, sc_pc, sc_htmls,
                    sc_all_proxies, sc_check, sc_valid_proxies, sc_id_proxies,
                    sc_files >>

\* check_geo resumes with the answer and returns; on True the entry goes to
\* id_proxies
GeoResponse(n) ==
    /\ sc_pc = "geo"
    /\ sc_geo.lookups[n].st = "request"
    /\ \E answer \in GeoAnswers :
           /\ sc_geo' = [sc_geo EXCEPT !.lookups[n].st = "done",
                                       !.lookups[n].answer = answer,
                                       !.lookups[n].result = Bool(check_geo(answer))]
           /\ sc_id_proxies' =
                  IF check_geo(answer)
                  THEN [sc_id_proxies EXCEPT
                           ![ProtocolOf(sc_valid_proxies, sc_geo.all_valid[n])] =
                               Append(@, sc_geo.all_valid[n])]
                  ELSE sc_id_proxies
    /\ UNCHANGED << pipeline, validators, scraper, sc_pc, sc_htmls,
                    sc_all_proxies, sc_check, sc_valid_proxies, sc_files >>

\* the geo loop is over: the lists of id_proxies are saved and main() returns
SaveId ==
    /\ sc_pc = "geo"
    /\ \A n \in DOMAIN sc_geo.lookups : sc_geo.lookups[n].st = "done"
    /\ sc_files' = sc_files \cup IdFiles
    /\ sc_pc' = "done"
    /\ UNCHANGED << pipeline, validators, scraper, sc_htmls, sc_all_proxies,
                    sc_check, sc_valid_proxies, sc_geo, sc_id_proxies >>

CheckerInit ==
    /\ PipelineIdle
    /\ ValidatorsIdle
    /\ ScraperIdle
    /\ sc_pc = "start"
    /\ sc_htmls = << >>
    /\ sc_all_proxies = {}
    /\ sc_check = NoCheck
    /\ sc_valid_proxies = NoLists
    /\ sc_geo = NoGeo
    /\ sc_id_proxies = NoLists
    /\ sc_files = {}

CheckerNext ==
    \/ ReadSources
    \/ \E t \in DOMAIN sc_htmls : FetchUrlStart(t)
    \/ \E t \in DOMAIN sc_htmls : FetchUrlWake(t)
    \/ \E t \in DOMAIN sc_htmls : FetchUrlResponse(t)
    \/ ParseHtmls
    \/ CheckNext
    \/ \E k \in DOMAIN sc_check.tasks : CheckProxyStart(k)
    \/ \E k \in DOMAIN sc_check.tasks : CheckProxyWake(k)
    \/ \E k \in DOMAIN sc_check.tasks : CheckProxyResponse(k)
    \/ CheckCollect
    \/ SaveValid
    \/ \E n \in DOMAIN sc_geo.lookups : GeoSleep(n)
    \/ \E n \in DOMAIN sc_geo.lookups : GeoRequest(n)
    \/ \E n \in DOMAIN sc_geo.lookups : GeoResponse(n)
    \/ SaveId

CheckerSpec == CheckerInit /\ [][CheckerNext]_vars

(***************************************************************************)
(* src/scraper.py                                                          *)
(***************************************************************************)
\* the number of lines of src/proxies.txt
NumSources == 2

\* asyncio.Semaphore(40) of ProxyScraper.__init__
rate_limit == 40

\* the lines the sources serve: an http proxy, a socks5 proxy by its port,
\* and a line without a port
HttpLine == Ip(<<"1">>, <<"1">>, <<"1">>, <<"1">>) \o <<":", "8", "0", "8", "0">>

SocksLine == Ip(<<"2">>, <<"2">>, <<"2">>, <<"2">>) \o <<":", "1", "0", "8", "0">>

BareLine == Ip(<<"3">>, <<"3">>, <<"3">>, <<"3">>)

\* the answers to the GET of _fetch_proxies: an exception, or a text, given
\* as its pieces between newlines
ScrapeAnswers ==
    { [kind |-> "error", lines |-> << >>],
      [kind |-> "response", lines |-> << HttpLine \o <<" ">>, << >> >>],
      [kind |-> "response", lines |-> << SocksLine, HttpLine >>],
      [kind |-> "response", lines |-> << BareLine >>] }

\* [line.strip() for line in text.split('\n') if line.strip()]
RECURSIVE StrippedLines(_)
StrippedLines(lines) ==
    IF lines = << >> THEN << >>
    ELSE (IF Strip(Head(lines)) # << >> THEN << Strip(Head(lines)) >> ELSE << >>)
         \o StrippedLines(Tail(lines))

\* what _fetch_proxies returns for an answer
fetch_lines(answer) ==
    IF answer.kind = "error" THEN << >> ELSE StrippedLines(answer.lines)

\* proxy.split(':')[1] raises IndexError
HasNoPort(proxy) == Len(Split(proxy, ":")) < 2

\* _guess_proxy_type
guess_proxy_type(proxy) ==
    LET port == Split(proxy, ":")[2]
    IN  IF port \in { <<"1", "0", "8", "0">>, <<"9", "0", "5", "0">> } THEN "socks5"
        ELSE IF port \in { <<"1", "0", "8", "1">>, <<"4", "1", "4", "5">> } THEN "socks4"
        ELSE "http"

\* the answers to the GET of check_proxy through the proxy
LiveAnswers ==
    { [kind |-> "error", status |-> 0],
      [kind |-> "response", status |-> 403],
      [kind |-> "response", status |-> 200] }

\* what check_proxy returns for an answer: the pair (proxy, proxy_type), the
\* pair (None, None) from the handler, or, with a status other than 200, the
\* None of a function that ends without a return statement
live_check(answer) ==
    IF answer.kind = "error" THEN "(None, None)"
    ELSE IF answer.status = 200 THEN "(proxy, type)"
    ELSE "None"

\* what check_country returns for an answer: the status is not looked at
check_country(answer) ==
    IF answer.kind = "error" THEN FALSE
    ELSE IF answer.body = "malformed" THEN FALSE
    ELSE answer.body = "ID"

NewRun == [st |-> "new", result |-> "none"]

\* scrape_proxies: _fetch_proxies of a source runs and returns
ScrapeFetch(t) ==
    /\ ps_pc = "scrape"
    /\ ps_fetch[t].st = "new"
    /\ \E answer \in ScrapeAnswers :
           ps_fetch' = [ps_fetch EXCEPT ![t] = [st |-> "done", result |-> fetch_lines(answer)]]
    /\ UNCHANGED << pipeline, validators, checker, ps_pc, ps_proxies, ps_check,
                    ps_live, ps_country, ps_id_proxies, ps_results >>

\* gather returns; list(set().union(*proxy_lists)); run creates the
\* check_proxy tasks of step 1
ScrapeDone ==
    /\ ps_pc = "scrape"
    /\ \A t \in DOMAIN ps_fetch : ps_fetch[t].st = "done"
    /\ \E l \in ListsOf(UNION { Range(ps_fetch[t].result) : t \in DOMAIN ps_fetch }) :
           /\ ps_proxies' = l
           /\ ps_check' = [n \in DOMAIN l |-> NewRun]
    /\ ps_fetch' = << >>
    /\ ps_pc' = "step1"
    /\ UNCHANGED << pipeline, validators, checker, ps_live, ps_country,
                    ps_id_proxies, ps_results >>

\* check_proxy up to its first suspension: _guess_proxy_type, outside the
\* try, raises IndexError on a line without a port, and `await future` in
\* run re-raises it; otherwise the GET is sent
LiveStart(n) ==
    /\ ps_pc = "step1"
    /\ ps_check[n].st = "new"
    /\ \A m \in 1..(n - 1) : ps_check[m].st # "new"
    /\ IF HasNoPort(ps_proxies[n])
       THEN /\ ps_check' = [ps_check EXCEPT ![n] = [st |-> "done", result |-> "IndexError"]]
            /\ ps_pc' = "aborted"
       ELSE /\ ps_check' = [ps_check EXCEPT ![n].st = "get"]
            /\ ps_pc' = ps_pc
    /\ UNCHANGED << pipeline, validators, checker, ps_fetch, ps_proxies,
                    ps_live, ps_country, ps_id_proxies, ps_results >>

\* check_proxy resumes with the answer and returns; as_completed hands its
\* result to the loop of step 1, where `proxy, ptype = await future` raises
\* TypeError on None
LiveResponse(n) ==
    /\ ps_pc = "step1"
    /\ ps_check[n].st = "get"
    /\ \A m \in DOMAIN ps_check : ps_check[m].st # "new"
    /\ \E answer \in LiveAnswers :
           /\ ps_check' = [ps_check EXCEPT ![n] = [st |-> "done", result |-> live_check(answer)]]
           /\ ps_live' = IF live_check(answer) = "(proxy, type)"
                         THEN Append(ps_live, [proxy |-> ps_proxies[n],
                                               ptype |-> guess_proxy_type(ps_proxies[n])])
                         ELSE ps_live
           /\ ps_pc' = IF live_check(answer) = "None" THEN "aborted" ELSE ps_pc
    /\ UNCHANGED << pipeline, validators, checker, ps_fetch, ps_proxies,
                    ps_country, ps_id_proxies, ps_results >>

\* step 1 is over; run creates the check_country tasks of step 2
LiveDone ==
    /\ ps_pc = "step1"
    /\ \A n \in DOMAIN ps_check : ps_check[n].st = "done"
    /\ ps_country' = [n \in DOMAIN ps_live |->
                         [st |-> "new", ip |-> << >>, answer |-> NoAnswer, result |-> "none"]]
    /\ ps_pc' = "step2"
    /\ UNCHANGED << pipeline, validators, checker, ps_fetch, ps_proxies,
                    ps_check, ps_live, ps_id_proxies, ps_results >>

\* the number of check_country tasks that have returned: the index that
\* enumerate(as_completed(tasks)) gives to the next one that returns
CountryCompleted(tasks) ==
    Cardinality({ n \in DOMAIN tasks : tasks[n].st = "done" })

\* the element of live_proxies that run picks for the task that returns now:
\* live_proxies[i], with i counting the tasks in the order they return
PickedIndex(tasks, n) == CountryCompleted(tasks) + 1

\* check_country up to its first suspension: the ip is cut out, a permit of
\* rate_limit is taken and the GET is sent
CountryStart(n) ==
    /\ ps_pc = "step2"
    /\ ps_country[n].st = "new"
    /\ \A m \in 1..(n - 1) : ps_country[m].st # "new"
    /\ Cardinality({ m \in DOMAIN ps_country : ps_country[m].st = "get" }) < rate_limit
    /\ ps_country' = [ps_country EXCEPT ![n].st = "get",
                                        ![n].ip = Split(ps_live[n].proxy, ":")[1]]
    /\ UNCHANGED << pipeline, validators, checker, ps_pc, ps_fetch, ps_proxies,
                    ps_check, ps_live, ps_id_proxies, ps_results >>

\* check_country resumes with the answer and returns; the loop of step 2
\* gets the result as its i-th
CountryResponse(n) ==
    /\ ps_pc = "step2"
    /\ ps_country[n].st = "get"
    /\ \A m \in DOMAIN ps_country : ps_country[m].st # "new"
    /\ \E answer \in GeoAnswers :
           /\ ps_country' = [ps_country EXCEPT ![n].st = "done",
                                               ![n].answer = answer,
                                               ![n].result = Bool(check_country(answer))]
           /\ ps_id_proxies' =
                  IF check_country(answer)
                  THEN Append(ps_id_proxies, ps_live[PickedIndex(ps_country, n)])
                  ELSE ps_id_proxies
    /\ UNCHANGED << pipeline, validators, checker, ps_pc, ps_fetch, ps_proxies,
                    ps_check, ps_live, ps_results >>

\* the proxies of the pairs of l that have the type ptype, in the order of l
RECURSIVE OfType(_, _)
OfType(l, ptype) ==
    IF l = << >> THEN << >>
    ELSE (IF Head(l).ptype = ptype THEN << Head(l).proxy >> ELSE << >>)
         \o OfType(Tail(l), ptype)

ResultKeys == { "http", "socks4", "socks5", "id_http", "id_socks4", "id_socks5" }

NoResults == [k \in ResultKeys |-> << >>]

\* step 2 is over: the results are classified and _save_results writes them
SaveResults ==
    /\ ps_pc = "step2"
    /\ \A n \in DOMAIN ps_country : ps_country[n].st = "done"
    /\ ps_results' = [k \in ResultKeys |->
                         CASE k = "http"      -> OfType(ps_live, "http")
                           [] k = "socks4"    -> OfType(ps_live, "socks4")
                           [] k = "socks5"    -> OfType(ps_live, "socks5")
                           [] k = "id_http"   -> OfType(ps_id_proxies, "http")
                           [] k = "id_socks4" -> OfType(ps_id_proxies, "socks4")
                           [] k = "id_socks5" -> OfType(ps_id_proxies, "socks5")]
    /\ ps_pc' = "done"
    /\ UNCHANGED << pipeline, validators, checker, ps_fetch, ps_proxies,
                    ps_check, ps_live, ps_country, ps_id_proxies >>

ScraperInit ==
    /\ PipelineIdle
    /\ ValidatorsIdle
    /\ CheckerIdle
    /\ ps_pc = "scrape"
    /\ ps_fetch = [t \in 1..NumSources |-> [st |-> "new", result |-> << >>]]
    /\ ps_proxies = << >>
    /\ ps_check = << >>
    /\ ps_live = << >>
    /\ ps_country = << >>
    /\ ps_id_proxies = << >>
    /\ ps_results = NoResults

ScraperNext ==
    \/ \E t \in DOMAIN ps_fetch : ScrapeFetch(t)
    \/ ScrapeDone
    \/ \E n \in DOMAIN ps_check : LiveStart(n)
    \/ \E n \in DOMAIN ps_check : LiveResponse(n)
    \/ LiveDone
    \/ \E n \in DOMAIN ps_country : CountryStart(n)
    \/ \E n \in DOMAIN ps_country : CountryResponse(n)
    \/ SaveResults

ScraperSpec == ScraperInit /\ [][ScraperNext]_vars

(***************************************************************************)
(* Properties.                                                             *)
(***************************************************************************)
SameAddress(p, q) == p.ip = q.ip /\ p.port = q.port

\* verify_proxies has returned
Verified == pc \in {"save", "done"}

\* the verified proxy an output entry stands for
ProxyOf(e) == CHOOSE p \in Range(verified) : Format(p) = e

\* the entries of the output file of protocol P
Partition(P) == Entries(files[P \o "-proxies.txt"])

\* l is in non-decreasing order of the latency of its entries' proxies
Ascending(l) ==
    \A k \in 1..(Len(l) - 1) : ProxyOf(l[k]).latency <= ProxyOf(l[k + 1]).latency

\* C1: after hyper_scrape has merged the results of all fetches, no two
\* candidates of the merged set, and so no two candidates of the list handed
\* to verify_proxies, share the same (ip, port); every candidate of the list
\* has its own single check_proxy task, so an address is probed at most once.
C1_DistinctAddresses ==
    /\ \A p, q \in all_proxies : SameAddress(p, q) => p = q
    /\ \A m, n \in DOMAIN proxies : SameAddress(proxies[m], proxies[n]) => m = n
    /\ DOMAIN probe = DOMAIN proxies

\* C1, its case: two fetches returned the same address under two protocol
\* hints and the results have been merged.
C1_DuplicatesMerged ==
    /\ pc = "merged"
    /\ \E t, u \in DOMAIN fetch :
           \E p \in fetch[t].result, q \in fetch[u].result :
               SameAddress(p, q) /\ p.protocol # q.protocol

\* C2: a candidate whose ip:port is in the blacklist loaded at startup is
\* never in the list handed to verify_proxies, and so never probed.
C2_BlacklistedNeverVerified ==
    \A n \in DOMAIN proxies : Format(proxies[n]) \notin blacklist

\* an answer with status 200/201/202 and latency below the ceiling
FastSuccess(resp) ==
    /\ resp.kind = "response"
    /\ resp.status \in {200, 201, 202}
    /\ resp.latency < latency_limit

\* an answer with status 200/201/202 and latency at or above the ceiling
SlowSuccess(resp) ==
    /\ resp.kind = "response"
    /\ resp.status \in {200, 201, 202}
    /\ resp.latency >= latency_limit

\* C3: check_proxy asks the test endpoints one after the other, in the order
\* of the list; no answer before the latest was a fast success (a probe that
\* is still running has had none), and a probe that ended with True ended on
\* the fast success of the endpoint it asked last, with that answer's latency:
\* no endpoint after it is asked.
C3_FirstSuccessWins ==
    \A n \in DOMAIN probe :
        /\ probe[n].asked \in 0..Len(test_urls)
        /\ (probe[n].result = "running" /\ probe[n].asked > 0)
               => ~ FastSuccess(probe[n].last)
        /\ (probe[n].result = "running") => probe[n].asked < Len(test_urls)
        /\ (pc = "gather" /\ n \in Batch /\ probe[n].result = "true")
               => /\ FastSuccess(probe[n].last)
                  /\ proxies[n].latency = probe[n].last.latency

\* C3, its case: the first endpoint failed, the second answered 200 after
\* 400 ms; the probe is over after two requests with latency 400.
C3_SecondEndpointWins ==
    \E n \in DOMAIN probe :
        /\ pc = "gather"
        /\ probe[n].result = "true"
        /\ probe[n].asked = 2
        /\ probe[n].last.latency = 400
        /\ proxies[n].latency = 400

\* C4: a success status at or above the ceiling does not end the probe with
\* True: the probe goes on to the next endpoint, and after the last endpoint
\* it ends with False; every proxy in verified has latency below the ceiling.
C4_CeilingEnforced ==
    /\ \A n \in DOMAIN probe :
           SlowSuccess(probe[n].last)
               => /\ probe[n].result # "true"
                  /\ probe[n].asked < Len(test_urls) => probe[n].result = "running"
                  /\ probe[n].asked = Len(test_urls) => probe[n].result = "false"
    /\ \A k \in DOMAIN verified : verified[k].latency < latency_limit
    /\ \A n \in DOMAIN proxies :
           probe[n].result = "true" => proxies[n].latency < latency_limit

\* C4, its case: the last endpoint answered with a success status at the
\* ceiling and the probe ended with False.
C4_SlowAnswerRejected ==
    \E n \in DOMAIN probe :
        /\ SlowSuccess(probe[n].last)
        /\ probe[n].asked = Len(test_urls)
        /\ probe[n].result = "false"

InVerified(n) == \E k \in DOMAIN verified : verified[k] = proxies[n]

InInvalid(n) == \E k \in DOMAIN invalid : invalid[k] = Format(proxies[n])

\* C5: every candidate of a finished batch is in exactly one of verified and
\* invalid (there as its ip:port string), in verified exactly when its probe
\* returned True (so a probe that raised counts as invalid); candidates of
\* batches not finished yet are in neither; when verify_proxies has returned
\* every candidate is classified.
C5_ClassifiedExactlyOnce ==
    /\ \A n \in DOMAIN proxies :
           IF n <= i
           THEN /\ InVerified(n) # InInvalid(n)
                /\ InVerified(n) <=> probe[n].result = "true"
           ELSE ~ InVerified(n) /\ ~ InInvalid(n)
    /\ Len(verified) + Len(invalid) = Min(i, Len(proxies))
    /\ Verified => i >= Len(proxies)

\* C5, its case: a probe of an earlier batch raised, a later batch was still
\* verified, and the run is complete.
C5_RaiseDoesNotAbort ==
    /\ pc = "done"
    /\ \E m, n \in DOMAIN proxies :
           /\ m + batch_size <= n
           /\ probe[m].result = "exception"
           /\ InInvalid(m)
           /\ probe[n].result = "true"
           /\ InVerified(n)

\* C6: after a complete run the blacklist file holds every entry it held at
\* startup and every candidate classified invalid in the run.
C6_BlacklistAppendOnly ==
    pc = "done" =>
        /\ blacklist \subseteq Range(Entries(files["blacklist.txt"]))
        /\ Range(invalid) \subseteq Range(Entries(files["blacklist.txt"]))

\* every output file exists and has no entry
EmptyOutputs ==
    \A n \in OutputNameSet : files[n].exists /\ Entries(files[n]) = << >>

\* C7: every run terminates, and a run in which every source fetch failed
\* (an error, a timeout or a status other than 200) ends with all five output
\* files written, each without entries.
C7_AllSourcesFailStillWrites ==
    /\ <>(pc = "done")
    /\ []((pc = "done" /\ all_failed) => EmptyOutputs)

\* C7, its case: there were sources, every fetch failed, the run is complete.
C7_AllSourcesFailed ==
    /\ pc = "done"
    /\ all_failed
    /\ Tasks(sources) # << >>

\* C8: each protocol file lists verified proxies of its protocol in
\* non-decreasing order of latency.
C8_PartitionsAscending ==
    pc = "done" =>
        \A P \in ProtocolSet :
            /\ \A e \in Range(Partition(P)) :
                   \E p \in Range(verified) : Format(p) = e /\ p.protocol = P
            /\ Ascending(Partition(P))

\* C8, its case: two proxies of one protocol were verified slower first, and
\* the files are written.
C8_ReorderedPartition ==
    /\ pc = "done"
    /\ \E j, k \in DOMAIN verified :
           /\ j < k
           /\ verified[j].protocol = verified[k].protocol
           /\ verified[j].latency > verified[k].latency

\* C9 as stated: the aggregate list is the http list followed by the socks4
\* list followed by the socks5 list.
C9_AllIsConcatenation ==
    pc = "done" =>
        Entries(files["all-proxies.txt"])
            = Partition("http") \o Partition("socks4") \o Partition("socks5")

\* C9, amended: the aggregate list holds every verified proxy once, in
\* non-decreasing order of latency across the protocols, and each protocol
\* list is the subsequence of the aggregate list with the proxies of that
\* protocol.
C9_AllIsAscendingInterleaving ==
    pc = "done" =>
        LET all == Entries(files["all-proxies.txt"])
        IN  /\ Len(all) = Len(verified)
            /\ Range(all) = { Format(p) : p \in Range(verified) }
            /\ Ascending(all)
            /\ \A P \in ProtocolSet :
                   Partition(P) = SelectSeq(all, LAMBDA e : ProxyOf(e).protocol = P)

\* C9, its case: a socks proxy is faster than an http proxy, so the aggregate
\* list is not the concatenation of the protocol lists.
C9_FasterSocksFirst ==
    /\ pc = "done"
    /\ \E p, q \in Range(verified) :
           p.protocol = "http" /\ q.protocol # "http" /\ q.latency < p.latency
    /\ Entries(files["all-proxies.txt"])
           # Partition("http") \o Partition("socks4") \o Partition("socks5")

\* the output files but the blacklist, which can exist before the run
ResultNames == OutputNameSet \ {"blacklist.txt"}

\* C10 as stated: without sites.txt no source is fetched, no candidate is
\* verified and no output file is written.
C10_MissingSourcesAbort ==
    ~ files["sites.txt"].exists =>
        /\ fetch = << >>
        /\ proxies = << >>
        /\ pc \notin {"save", "done"}
        /\ \A n \in ResultNames : ~ files[n].exists

\* C10, amended: without sites.txt the run goes on with the built-in default
\* sources, one URL per protocol: each is fetched, and the complete run has
\* written every output file.
C10_MissingSourcesUseDefaults ==
    ~ files["sites.txt"].exists =>
        /\ sources = DefaultSources
        /\ \A P \in ProtocolSet : Len(sources[P]) = 1
        /\ pc = "scrape" => Len(fetch) = Len(Protocols)
        /\ pc = "done" => \A n \in OutputNameSet : files[n].exists

\* C10, its case: sites.txt was missing and the run ended with a verified
\* proxy in its output.
C10_DefaultsRunCompleted ==
    /\ ~ files["sites.txt"].exists
    /\ pc = "done"
    /\ verified # << >>
    /\ Entries(files["all-proxies.txt"]) # << >>

\* C17: proxy.latency is assigned only by a check_proxy that returns True: a
\* candidate holds a latency other than its initial 0 only if its own probe
\* ended with True, so every candidate whose probe ended otherwise, and every
\* candidate that verify_proxies put in the invalid list, still has latency
\* 0, also when an endpoint answered it with a success status at or above
\* the ceiling.
C17_InvalidKeepInitialLatency ==
    /\ \A n \in DOMAIN proxies :
           proxies[n].latency # 0 => probe[n].result = "true"
    /\ \A n \in DOMAIN proxies :
           Format(proxies[n]) \in Range(invalid) => proxies[n].latency = 0

\* C17, its case: the last endpoint answered a candidate with a success
\* status at the ceiling, and the probe returned False.
C17_SlowSuccessLeftNoLatency ==
    \E n \in DOMAIN proxies :
        /\ probe[n].result = "false"
        /\ SlowSuccess(probe[n].last)
        /\ proxies[n].latency = 0

\* the address of a candidate
AddressOf(p) == << p.ip, p.port >>

\* the first task, in the order hyper_scrape created them, whose source
\* lists the address of p
FirstListing(p) ==
    CHOOSE t \in DOMAIN fetch :
        /\ \E q \in fetch[t].result : SameAddress(p, q)
        /\ \A u \in 1..(t - 1) : ~ \E q \in fetch[u].result : SameAddress(p, q)

\* C20: the working set hyper_scrape hands on is a function of what the
\* sources delivered, whatever the order the fetch tasks returned in: its
\* addresses are those of the union of the delivered sets, each once, and
\* each candidate carries the protocol of the first source, in the order the
\* tasks were created, that lists its address, also when several sources
\* list the address under different protocols.
C20_MergeIgnoresCompletionOrder ==
    pc = "merged" =>
        /\ { AddressOf(p) : p \in all_proxies }
               = { AddressOf(q) : q \in UNION { fetch[t].result : t \in DOMAIN fetch } }
        /\ \A p, q \in all_proxies : SameAddress(p, q) => p = q
        /\ \A p \in all_proxies :
               p.protocol = Tasks(sources)[FirstListing(p)].protocol

\* C20, its case: the tasks returned out of the order they were created in,
\* two of them delivered the same address under different protocols, and
\* the results have been merged.
C20_OutOfOrderWithSharedAddress ==
    /\ pc = "merged"
    /\ \E t, u \in DOMAIN fetch : t < u /\ fetch[t].rank > fetch[u].rank
    /\ \E t, u \in DOMAIN fetch :
           \E p \in fetch[t].result, q \in fetch[u].result :
               SameAddress(p, q) /\ p.protocol # q.protocol

\* the check_proxy tasks that have started and not yet returned or raised
InFlight == { n \in DOMAIN probe : probe[n].result = "running" }

\* the number (from 0) of the batch the n-th candidate belongs to
BatchOf(n) == (n - 1) \div batch_size

DecimalOctet(f) == Len(f) \in 1..3 /\ AllDigits(f) /\ Value(f) <= 255

\* four decimal octets separated by dots
DottedQuad(s) ==
    LET f == Split(s, ".") IN Len(f) = 4 /\ \A k \in 1..4 : DecimalOctet(f[k])

\* C11: for every ip string and integer port, is_valid_ip(ip) and
\* is_valid_port(port) both return True if and only if ip is four
\* dot-separated decimal octets, each denoting a number in 0..255, and port
\* is in 1..65535.
C11_ValidatorsExact ==
    (admission.ip # "none" /\ admission.port # "none") =>
        ((admission.ip = "true" /\ admission.port = "true")
            <=> (DottedQuad(candidate.ip) /\ candidate.port \in 1..65535))

\* ip:port with a dotted quad of octets in 0..255 and a port in 1..65535
WellFormedPair(s) ==
    LET parts == Split(s, ":")
    IN  /\ Len(parts) = 2
        /\ DottedQuad(parts[1])
        /\ parts[2] # << >> /\ AllDigits(parts[2])
        /\ Value(parts[2]) \in 1..65535

\* C12: every ip:port that parse_proxies of scraper_checker.py returns, from
\* the regex scan of the text or from the first two cells of a table row,
\* has four octets in 0..255 and a port in 1..65535, so no malformed token is
\* in all_proxies or handed to check_proxy.
C12_ParsedPairsWellFormed ==
    /\ \A p \in sc_all_proxies : WellFormedPair(p)
    /\ sc_check.proxy # << >> => WellFormedPair(sc_check.proxy)

\* the fetch_url tasks inside `async with semaphore`
FetchesInFlight == { t \in DOMAIN sc_htmls : sc_htmls[t].st = "get" }

\* C16: the number of fetch_url tasks inside the semaphore never exceeds the
\* value of the semaphore, whatever the number of source URLs; a task that
\* is blocked in acquire has as many tasks before it, in the order of the
\* URLs, that took a permit as the semaphore has permits.
C16_FetchesBounded ==
    /\ Cardinality(FetchesInFlight) <= SemaphoreValue
    /\ \A t \in Waiting(sc_htmls) :
           Cardinality({ u \in 1..(t - 1) : sc_htmls[u].st \in {"get", "done"} })
               >= SemaphoreValue

\* C16, its case: every permit is taken and a fetch is waiting for one.
C16_FetchWaitsForPermit ==
    /\ Cardinality(FetchesInFlight) = SemaphoreValue
    /\ Waiting(sc_htmls) # {}

\* C13: in the geo stage at most one check_geo is in flight; an iteration of
\* the loop, that is its pause and then its lookup, begins only when the
\* lookups of all iterations before it have returned; and each lookup is
\* preceded by its own pause of 60 / GEO_RATE_LIMIT seconds.
C13_GeoLookupsSerialized ==
    /\ Cardinality(GeoInFlight(sc_geo.lookups)) <= 1
    /\ \A n \in DOMAIN sc_geo.lookups :
           sc_geo.lookups[n].st # "todo" =>
               \A m \in 1..(n - 1) : sc_geo.lookups[m].st = "done"
    /\ \A n \in DOMAIN sc_geo.lookups :
           sc_geo.lookups[n].st \in {"request", "done"} =>
               /\ sc_geo.lookups[n].slept = GeoPause
               /\ GeoPause * GEO_RATE_LIMIT = 60

\* C13, its case: the lookup of the second valid proxy is in flight.
C13_SecondLookupInFlight ==
    \E n \in DOMAIN sc_geo.lookups : n > 1 /\ sc_geo.lookups[n].st = "request"

\* C15: in src/scraper.py no outcome of a probe aborts the run: a check_proxy
\* that meets an exception, a timeout or a status other than 200 only leaves
\* its candidate out of live_proxies, and ProxyScraper.run goes on to
\* _save_results.
C15_ProbeFailureNeverAborts ==
    \A n \in DOMAIN ps_check :
        (ps_check[n].st = "done" /\ ps_check[n].result # "(proxy, type)")
            => ps_pc # "aborted"

\* the id_* list of the type of the n-th live proxy holds it
InIdPartition(n) ==
    ps_live[n].proxy \in Range(ps_results["id_" \o ps_live[n].ptype])

\* C18: when ProxyScraper.run has saved its results, a live proxy is in an
\* id_* list if and only if the check_country task created for that proxy
\* returned True, whatever the order the tasks returned in.
C18_IdPartitionMatchesOwnLookup ==
    ps_pc = "done" =>
        \A n \in DOMAIN ps_live :
            InIdPartition(n) <=> ps_country[n].result = "true"

\* a geo lookup that failed: an exception or timeout, a status other than
\* 200, or a body that is no JSON
FailedLookup(answer) ==
    \/ answer.kind = "error"
    \/ answer.kind = "response" /\ answer.status # 200
    \/ answer.kind = "response" /\ answer.body = "malformed"

\* the part of C14 about check_geo of scraper_checker.py
GeoFailureIsNoMatch ==
    \A n \in DOMAIN sc_geo.lookups :
        (sc_geo.lookups[n].st = "done" /\ FailedLookup(sc_geo.lookups[n].answer))
            => /\ sc_geo.lookups[n].result = "false"
               /\ sc_geo.all_valid[n] \notin Range(AllOf(sc_id_proxies))
               /\ sc_pc \in {"geo", "done"}

\* the part of C14 about check_country of src/scraper.py
CountryFailureIsNoMatch ==
    \A n \in DOMAIN ps_country :
        (ps_country[n].st = "done" /\ FailedLookup(ps_country[n].answer))
            => /\ ps_country[n].result = "false"
               /\ ps_live[n] \notin Range(ps_id_proxies)
               /\ ps_pc \in {"step2", "done"}

\* C14: a geo lookup that times out, raises, gets a status other than 200 or
\* a malformed body returns False and leaves its proxy, and no other, out of
\* the country-matched lists; the run is not aborted by it: it stays in the
\* geo stage or goes on to write its result files. This for check_geo of
\* scraper_checker.py and for check_country of src/scraper.py.
C14_GeoFailureIsNoMatch == GeoFailureIsNoMatch /\ CountryFailureIsNoMatch

\* the candidates a body lists for a protocol: one per line that spells the
\* ip:port of an address with a port in range
ListedIn(body, protocol) ==
    { Proxy(a.ip, a.port, protocol) :
        a \in { b \in Addrs : /\ is_valid_port(b.port)
                              /\ \E n \in DOMAIN body : body[n] = Format(b) } }

\* the listed candidates that are not blacklisted and not already seen
Admissible(body, protocol) ==
    { p \in ListedIn(body, protocol) :
        /\ Format(p) \notin blacklist
        /\ ~ \E q \in seen_proxies : ProxyEq(q, p) }

\* a fetch_proxies task that found no cache entry, got status 200 and returned
AnsweredOk(t) ==
    /\ fetch[t].st = "done"
    /\ fetch[t].answer.kind = "response"
    /\ fetch[t].answer.status = 200

\* C21: fetch_proxies, with no cache entry and an answer of status 200,
\* returns exactly the candidates of the body's lines that are well-formed
\* ip:port, not blacklisted and not already seen; so a body with such a line
\* gives a non-empty set.
C21_FetchReturnsBodyCandidates ==
    \A t \in DOMAIN fetch :
        AnsweredOk(t) =>
            fetch[t].result =
                Admissible(fetch[t].answer.body, Tasks(sources)[t].protocol)

\* an entry "<proxy> | Latency: ..." of a valid_proxies list is that of proxy
EntryOf(entry, proxy) ==
    /\ Len(entry) > Len(proxy)
    /\ SubSeq(entry, 1, Len(proxy) + 1) = proxy \o << " " >>

\* proxy is recorded as valid in the partition of protocol
RecordedIn(lists, protocol, proxy) ==
    \E n \in DOMAIN lists[protocol] : EntryOf(lists[protocol][n], proxy)

\* the probes of the candidate at hand that got status 200: check_proxy
\* returns its protocol for that status and None in every other case
Succeeded ==
    { k \in DOMAIN sc_check.tasks : sc_check.tasks[k].result.protocol # "None" }

\* C22: when the three probes of a candidate have returned, the candidate is
\* recorded in the valid_proxies partition of the first protocol (in the
\* order http, socks4, socks5) whose probe got status 200 and in no other
\* partition; with no such probe it is recorded in none.
C22_FirstSucceedingProtocolRecorded ==
    [][ (sc_pc = "gather" /\ sc_pc' = "check") =>
            \A protocol \in ProtocolSet :
                RecordedIn(sc_valid_proxies', protocol, sc_check.proxy)
                    <=> /\ Succeeded # {}
                        /\ \E k \in Succeeded :
                               /\ \A j \in Succeeded : k <= j
                               /\ Protocols[k] = protocol ]_vars

====
